---- MODULE Spec2Model ----
(***************************************************************************)
(* A model of rtbf (src/rtbf/__main__.py): the scheduler thread that runs  *)
(* poll cycles over the account's comments and decides skip / obfuscate /  *)
(* delete for each, and the PrawQueue worker thread that executes the      *)
(* queued edit and delete calls one at a time.                             *)
(*                                                                         *)
(* Text is a sequence of one-character strings, so that `x in body` is a   *)
(* real substring search.  Time is counted in ticks of the wall clock.     *)
(***************************************************************************)
EXTENDS Integers, Sequences, FiniteSets, TLC

\* ------------------------------------------------------------------ bounds
MaxComments == 2      \* comments of the account
MaxTime == 2          \* last tick of the wall clock
MaxThreshold == 1     \* largest EXPIRE_MINUTES / DELETE_MINUTES tried, in minutes
MaxCycles == 2        \* poll cycles of a run of Spec

\* one minute of timedelta(minutes=...) in clock ticks
TicksPerMinute == 2

\* ------------------------------------------------------------ configuration
WATERMARK == <<"#", "r">>
FLAG_IGNORE == <<"/", "f">>
REPLACEMENT_TEXT == <<"d">>
COMMON_EMOJIS == {<<"e1">>, <<"e2">>}
LLMTexts == {<<"y">>}
Strategies == {"update", "emoji", "llm", "delete"}
COMMENT_LIMIT == 2

Comments == 1..MaxComments

\* entries the history variables keep: what MaxCycles poll cycles can enqueue
MaxLog == MaxCycles * COMMENT_LIMIT

\* pending mutations the producer may pile up in a run of LiveSpec
MaxPending == COMMENT_LIMIT

\* comment bodies the account starts with: at most one comment is not Plain
Plain == <<"#", "f">>
Bodies ==
  { Plain,
    <<"h", "/", "f">>,
    <<"d", " ", "^", "(", "#", "r", ")">>,
    <<"#", "r", "/", "f">> }

VARIABLES
  EXPIRE_MINUTES, DELETE_MINUTES, STRATEGY, APPEND_WATERMARK, credentials,
  body, exists,
  now, pc, obfuscation_cutoff, deletion_cutoff, listing, cycle, exitCause,
  queue, wpc, running,
  last, enqLog, execLog, sinceDelay

config == <<EXPIRE_MINUTES, DELETE_MINUTES, STRATEGY, APPEND_WATERMARK, credentials>>
remote == <<body, exists>>
sched == <<now, pc, obfuscation_cutoff, deletion_cutoff, listing, cycle, exitCause>>
work == <<queue, wpc, running>>
hist == <<last, enqLog, execLog, sinceDelay>>
vars == <<config, remote, sched, work, hist>>

\* ------------------------------------------------------------------- text
\* Python's `tok in s`
Contains(tok, s) ==
  \E i \in 0..(Len(s) - Len(tok)) : SubSeq(s, i + 1, i + Len(tok)) = tok

\* (mutant) the suffix is left out
WithWatermark_Bare(text) == text

\* f"{text} ^({WATERMARK})"
WithWatermark(text) == text \o <<" ", "^", "(">> \o WATERMARK \o <<")">>

Minutes(m) == m * TicksPerMinute

\* comment.created_utc: comment MaxComments is the newest, written at tick 0
Created(c) == c - MaxComments

Min(a, b) == IF a < b THEN a ELSE b

\* the history variables keep what happens while the first MaxCycles poll cycles
\* are counted, MaxLog entries at most
Record(log, n, e) == IF n <= MaxCycles /\ Len(log) < MaxLog THEN Append(log, e) ELSE log

\* ------------------------------------------------------------------- Init
NoDecision ==
  [id |-> 0, observed |-> <<>>, age |-> 0, age2 |-> 0, decision |-> "None", enq |-> <<>>,
   llm |-> "none"]

Start(n) ==
  /\ EXPIRE_MINUTES \in 0..MaxThreshold
  /\ DELETE_MINUTES \in 0..MaxThreshold
  /\ STRATEGY \in Strategies
  /\ APPEND_WATERMARK \in BOOLEAN
  /\ credentials \in BOOLEAN
  /\ body \in {b \in [Comments -> Bodies] : Cardinality({c \in Comments : b[c] # Plain}) <= 1}
  /\ exists = [c \in Comments |-> TRUE]
  /\ now = 0
  /\ pc = "validate"
  /\ obfuscation_cutoff = 0
  /\ deletion_cutoff = 0
  /\ listing = <<>>
  /\ cycle = n
  /\ exitCause = "none"
  /\ queue = <<>>
  /\ wpc = "unstarted"
  /\ running = <<>>
  /\ last = NoDecision
  /\ enqLog = <<>>
  /\ execLog = <<>>
  /\ sinceDelay = 0

Init == Start(0)

\* ------------------------------------------------------------ startup
\* (mutant) the strategy name is not checked
ConfigValid_CredentialsOnly == credentials

\* validate_config(): the four credentials and the strategy name
ConfigValid ==
  /\ credentials
  /\ STRATEGY \in {"update", "emoji", "llm"}

\* line 129: validate_config() raises ValueError at import, or returns
ValidateConfig ==
  /\ pc = "validate"
  /\ pc' = IF ConfigValid THEN "construct" ELSE "rejected"
  /\ UNCHANGED <<config, remote, now, obfuscation_cutoff, deletion_cutoff, listing, cycle,
                 exitCause, work, hist>>

\* lines 131-142: praw.Reddit(...), then PrawQueue() starts the worker thread
Construct ==
  /\ pc = "construct"
  /\ pc' = "auth"
  /\ wpc' = "get"
  /\ UNCHANGED <<config, remote, now, obfuscation_cutoff, deletion_cutoff, listing, cycle,
                 exitCause, queue, running, hist>>

\* (mutant) the `return` of line 330 is missing
AuthFailed_FallsThrough == "loop"

\* lines 328-330: the failed check is logged and main returns
AuthFailed == "returned"

\* lines 325-330: reddit.user.me() at the start of main()
Authenticate ==
  /\ pc = "auth"
  /\ \E ok \in BOOLEAN :
       /\ pc' = IF ok THEN "loop" ELSE AuthFailed
       /\ exitCause' = IF ok THEN exitCause ELSE "auth_failed"
  /\ UNCHANGED <<config, remote, now, obfuscation_cutoff, deletion_cutoff, listing, cycle,
                 work, hist>>

\* ---------------------------------------------------- the decision engine
\* (mutant) the ignore-flag test is left out
HasIgnoreFlag_Never(b) == FALSE

\* line 263: FLAG_IGNORE in comment.body
HasIgnoreFlag(b) == Contains(FLAG_IGNORE, b)

\* (mutant) the comparison is the wrong way round
IsObfuscationReady_Reversed(ct) == ct > obfuscation_cutoff

\* line 271: comment_time < obfuscation_cutoff
IsObfuscationReady(ct) == ct < obfuscation_cutoff

\* line 272: comment_time < deletion_cutoff
IsDeletionReady(ct) == ct < deletion_cutoff

\* line 273: WATERMARK in comment.body
AlreadyObfuscated(b) == Contains(WATERMARK, b)

\* (mutant) only equal thresholds delete; the watermark is not looked at
DeleteDirectly_CollapsedOnly(b) == DELETE_MINUTES = EXPIRE_MINUTES

\* (mutant) whatever is past the deletion threshold is deleted at once
DeleteDirectly_Always(b) == TRUE

\* line 278: DELETE_MINUTES == EXPIRE_MINUTES or already_obfuscated
DeleteDirectly(b) == DELETE_MINUTES = EXPIRE_MINUTES \/ AlreadyObfuscated(b)

\* (mutant) the watermark test is left out
ObfuscateOnly_NoWatermarkTest(c) == IsObfuscationReady(c.created_utc)

\* line 292: is_obfuscation_ready and not already_obfuscated
ObfuscateOnly(c) == IsObfuscationReady(c.created_utc) /\ ~AlreadyObfuscated(c.body)

\* lines 263-300: what the loop body does with one listed comment
Decide(c) ==
  IF HasIgnoreFlag(c.body) THEN "Skip"
  ELSE IF IsDeletionReady(c.created_utc)
       THEN IF DeleteDirectly(c.body) THEN "Delete"
            ELSE IF ~AlreadyObfuscated(c.body) THEN "Obfuscate"
            ELSE "Skip"
       ELSE IF ObfuscateOnly(c) THEN "Obfuscate"
       ELSE "Skip"

\* ---------------------------------------------------- the strategy resolver
\* how the rewrite call can end: a usable reply, or one of the failures of
\* lines 181-204
LLMFailures == {"HTTPError", "URLError", "JSONDecodeError", "NoChoices", "Exception"}

\* (mutant) the catch-all clause of lines 202-204 is missing
LLMCaught_NoCatchAll(o) == o # "Exception"

\* lines 180-204: the else branch and the four except clauses take every failure
LLMCaught(o) == TRUE

\* lines 150-204: the generated text, or a random emoji when the call fails;
\* raised: the failure leaves call_llm_api as an exception
call_llm_api(b) ==
  { [llm |-> "ok", raised |-> FALSE, text |-> t] : t \in LLMTexts }
  \cup UNION { IF LLMCaught(o)
               THEN { [llm |-> o, raised |-> FALSE, text |-> e] : e \in COMMON_EMOJIS }
               ELSE { [llm |-> o, raised |-> TRUE, text |-> <<>>] } : o \in LLMFailures }

\* lines 225-242: the texts obfuscate_comment may hand to update_comment_queued
Replacements(b) ==
  LET base == CASE STRATEGY = "update" ->
                     { [llm |-> "none", raised |-> FALSE, text |-> REPLACEMENT_TEXT] }
                [] STRATEGY = "emoji" ->
                     { [llm |-> "none", raised |-> FALSE, text |-> e] : e \in COMMON_EMOJIS }
                [] STRATEGY = "llm" -> call_llm_api(b)
                [] OTHER -> {}
  IN  { IF APPEND_WATERMARK /\ ~r.raised THEN [r EXCEPT !.text = WithWatermark(r.text)] ELSE r
        : r \in base }

\* lines 207-220: the work items delete_comment_queued / update_comment_queued put
DeleteItem(c) == [kind |-> "delete", id |-> c.id, text |-> <<>>]
EditItem(c, t) == [kind |-> "edit", id |-> c.id, text |-> t]

\* what one pass of the loop body puts on the queue (enq: nothing, or one item),
\* how the rewrite call ended, and whether the pass raised
Enqueued(c) ==
  CASE Decide(c) = "Delete" -> { [enq |-> <<DeleteItem(c)>>, llm |-> "none", raised |-> FALSE] }
    [] Decide(c) = "Obfuscate" ->
         { [enq |-> IF r.raised THEN <<>> ELSE <<EditItem(c, r.text)>>,
            llm |-> r.llm, raised |-> r.raised] : r \in Replacements(c.body) }
    [] OTHER -> { [enq |-> <<>>, llm |-> "none", raised |-> FALSE] }

\* ---------------------------------------------------------- the poll cycle
RECURSIVE NewestFirst(_)
NewestFirst(S) ==
  IF S = {} THEN <<>>
  ELSE LET c == CHOOSE x \in S : \A y \in S : Created(y) <= Created(x)
       IN  <<c>> \o NewestFirst(S \ {c})

\* line 259: reddit.user.me().comments.new(limit=COMMENT_LIMIT)
Listing ==
  LET ids == NewestFirst({c \in Comments : exists[c]})
      n == Min(Len(ids), COMMENT_LIMIT)
  IN  [i \in 1..n |-> [id |-> ids[i], body |-> body[ids[i]], created_utc |-> Created(ids[i])]]

\* (mutant) the clock is read for the deletion cutoff first
ClockReads_DeletionFirst ==
  { r \in (now..MaxTime) \X (now..MaxTime) : r[2] <= r[1] }

\* lines 249-250: datetime.now() is read for the obfuscation cutoff, then for
\* the deletion cutoff; the second read is never before the first
ClockReads ==
  { r \in (now..MaxTime) \X (now..MaxTime) : r[1] <= r[2] }

\* lines 249-259: the two clock reads and the listing call, whose snapshot the
\* loop iterates over
StartCycle ==
  /\ pc = "loop"
  /\ \E r \in ClockReads :
       /\ obfuscation_cutoff' = r[1] - Minutes(EXPIRE_MINUTES)
       /\ deletion_cutoff' = r[2] - Minutes(DELETE_MINUTES)
       /\ now' = IF r[1] < r[2] THEN r[2] ELSE r[1]
  /\ listing' = Listing
  /\ cycle' = Min(cycle + 1, MaxCycles + 1)
  /\ pc' = "iter"
  /\ UNCHANGED <<config, remote, exitCause, work, hist>>

\* process_expired_comments returns: its locals are gone
ReturnFromCycle ==
  /\ listing' = <<>>
  /\ obfuscation_cutoff' = 0
  /\ deletion_cutoff' = 0
  /\ last' = NoDecision

\* (mutant) no try around the loop: the error leaves process_expired_comments
InnerHandler_None == "fallback"

\* line 302: `except Exception` inside process_expired_comments
InnerHandler == "caught"

\* lines 258-302: the listing call or the loop body raises
CycleError ==
  /\ pc = "iter"
  /\ pc' = InnerHandler
  /\ UNCHANGED <<config, remote, now, obfuscation_cutoff, deletion_cutoff, listing, cycle,
                 exitCause, work, hist>>

\* line 303: the error is logged and process_expired_comments returns
CycleCaught ==
  /\ pc = "caught"
  /\ ReturnFromCycle
  /\ pc' = "sleep"
  /\ UNCHANGED <<config, remote, now, cycle, exitCause, work, enqLog, execLog, sinceDelay>>

\* lines 260-300: the loop body for the next listed comment
ProcessComment ==
  /\ pc = "iter"
  /\ listing # <<>>
  /\ LET c == Head(listing) IN
     \E r \in Enqueued(c) :
       /\ queue' = queue \o r.enq
       /\ last' = [id |-> c.id, observed |-> c.body,
                   age |-> (obfuscation_cutoff + Minutes(EXPIRE_MINUTES)) - c.created_utc,
                   age2 |-> (deletion_cutoff + Minutes(DELETE_MINUTES)) - c.created_utc,
                   decision |-> Decide(c), enq |-> r.enq, llm |-> r.llm]
       /\ enqLog' = IF r.enq = <<>> THEN enqLog
                    ELSE Record(enqLog, cycle, [op |-> r.enq[1], cycle |-> cycle,
                                                observed |-> c.body,
                                                created_utc |-> c.created_utc])
       /\ listing' = IF r.raised THEN listing ELSE Tail(listing)
       /\ pc' = IF r.raised THEN InnerHandler ELSE pc
  /\ UNCHANGED <<config, remote, now, obfuscation_cutoff, deletion_cutoff, cycle, exitCause,
                 wpc, running, execLog, sinceDelay>>

\* the for loop is exhausted
EndCycle ==
  /\ pc = "iter"
  /\ listing = <<>>
  /\ ReturnFromCycle
  /\ pc' = "sleep"
  /\ UNCHANGED <<config, remote, now, cycle, exitCause, work, enqLog, execLog, sinceDelay>>

\* lines 335-336: time.sleep(CHECK_INTERVAL_MINUTES * 60), then the next tick
Sleep ==
  /\ pc = "sleep"
  /\ pc' = "loop"
  /\ UNCHANGED <<config, remote, now, obfuscation_cutoff, deletion_cutoff, listing, cycle,
                 exitCause, work, hist>>

\* (mutant) no `except Exception` in the loop of main: the error ends it
OuterHandler_None == "terminated"

\* line 340: `except Exception` in the loop of main
OuterHandler == "fallback"

\* an error of a tick outside the try of process_expired_comments: lines 249-256
\* (the cutoffs, e.g. OverflowError of timedelta) or lines 335-336 (time.sleep
\* of a negative interval raises ValueError)
TickError ==
  /\ pc \in {"loop", "sleep"}
  /\ pc' = OuterHandler
  /\ UNCHANGED <<config, remote, now, obfuscation_cutoff, deletion_cutoff, listing, cycle,
                 exitCause, work, hist>>

\* lines 341-342: the error is logged, time.sleep(60), then the next tick
FallbackSleep ==
  /\ pc = "fallback"
  /\ pc' = "loop"
  /\ UNCHANGED <<config, remote, now, obfuscation_cutoff, deletion_cutoff, listing, cycle,
                 exitCause, work, hist>>

\* the positions of the scheduler loop of lines 332-342
Running == {"loop", "iter", "caught", "sleep", "fallback"}

\* lines 337-339: KeyboardInterrupt anywhere in the loop ends it
Interrupt ==
  /\ pc \in Running
  /\ pc' = "terminated"
  /\ exitCause' = "interrupt"
  /\ ReturnFromCycle
  /\ UNCHANGED <<config, remote, now, cycle, work, enqLog, execLog, sinceDelay>>

\* ------------------------------------------------------- the queue worker
\* (mutant) a LIFO queue
GetIndex_Last(q) == Len(q)

\* Queue.get(): the position of the item the worker takes
GetIndex(q) == 1

RemoveAt(q, i) == SubSeq(q, 1, i - 1) \o SubSeq(q, i + 1, Len(q))

\* (mutant) the error escapes the worker's loop
Caught_Not == FALSE

\* line 91: `except Exception` catches what the queued call raises
Caught == TRUE

\* (mutant) no time.sleep(1) after a task
WorkerFinally_NoSleep == "get"

\* lines 93-95: finally: task_done(); time.sleep(1)
WorkerFinally == "sleep"

\* line 81: the worker is a daemon thread, it runs while the main thread does
Alive == pc = "auth" \/ pc \in Running

\* line 86: func, args, kwargs, result_callback = self.queue.get()
WorkerGet ==
  /\ Alive
  /\ wpc = "get"
  /\ queue # <<>>
  /\ running' = Append(running, queue[GetIndex(queue)])
  /\ queue' = RemoveAt(queue, GetIndex(queue))
  /\ wpc' = "run"
  /\ UNCHANGED <<config, remote, sched, hist>>

\* comment.delete() / comment.edit(new_text) as the platform applies them
Applied(item) ==
  IF item.kind = "delete"
  THEN /\ exists' = [exists EXCEPT ![item.id] = FALSE]
       /\ body' = body
  ELSE /\ body' = [body EXCEPT ![item.id] = item.text]
       /\ exists' = exists

\* line 88: the queued call returns
WorkerRunOK ==
  /\ Alive
  /\ wpc = "run"
  /\ LET item == running[1] IN
       /\ item.kind = "edit" => exists[item.id]
       /\ Applied(item)
       /\ execLog' = Record(execLog, cycle, [op |-> item, ok |-> TRUE])
  /\ running' = Tail(running)
  /\ wpc' = WorkerFinally
  /\ sinceDelay' = Min(sinceDelay + 1, 2)
  /\ UNCHANGED <<config, sched, queue, last, enqLog>>

\* (mutant) a failed call is put back on the queue for another try
AfterFailure_Requeued(q, item) == Append(q, item)

\* lines 91-94: the failure is logged and task_done() called; the queue is
\* not touched
AfterFailure(q, item) == q

\* lines 91-92: the queued call raises
WorkerRunError ==
  /\ Alive
  /\ wpc = "run"
  /\ execLog' = Record(execLog, cycle, [op |-> running[1], ok |-> FALSE])
  /\ queue' = AfterFailure(queue, running[1])
  /\ running' = Tail(running)
  /\ wpc' = IF Caught THEN WorkerFinally ELSE "dead"
  /\ sinceDelay' = Min(sinceDelay + 1, 2)
  /\ UNCHANGED <<config, remote, sched, last, enqLog>>

\* line 95: time.sleep(1) is over
WorkerSleep ==
  /\ Alive
  /\ wpc = "sleep"
  /\ wpc' = "get"
  /\ sinceDelay' = 0
  /\ UNCHANGED <<config, remote, sched, queue, running, last, enqLog, execLog>>

\* ------------------------------------------------------ the specification
Next ==
  \/ ValidateConfig
  \/ Construct
  \/ Authenticate
  \/ (cycle < MaxCycles /\ StartCycle)
  \/ CycleError
  \/ CycleCaught
  \/ ProcessComment
  \/ EndCycle
  \/ Sleep
  \/ TickError
  \/ FallbackSleep
  \/ Interrupt
  \/ WorkerGet
  \/ WorkerRunOK
  \/ WorkerRunError
  \/ WorkerSleep

Spec == Init /\ [][Next]_vars

\* The run the liveness claim is about: the scheduler keeps running poll cycles
\* (no interrupt, no cap on their number), the listing and the queued calls
\* succeed, and both threads keep being scheduled.
SchedulerStep ==
  \/ ValidateConfig
  \/ Construct
  \/ Authenticate
  \/ StartCycle
  \/ (Len(queue) < MaxPending /\ ProcessComment)
  \/ EndCycle
  \/ Sleep

WorkerStep ==
  \/ WorkerGet
  \/ WorkerRunOK
  \/ WorkerSleep

LiveNext == SchedulerStep \/ WorkerStep

\* the poll cycles are not counted and no history is kept
LiveInit == Start(MaxCycles + 1)

LiveSpec == LiveInit /\ [][LiveNext]_vars /\ WF_vars(SchedulerStep) /\ WF_vars(WorkerStep)

\* The run with everything that can go wrong in it: listing errors, errors of a
\* tick, failing queued calls and the interrupt.  Both threads keep being
\* scheduled; that an interrupt ever arrives is not assumed.
RunSchedulerStep ==
  \/ SchedulerStep
  \/ CycleError
  \/ CycleCaught
  \/ TickError
  \/ FallbackSleep

RunWorkerStep ==
  \/ WorkerStep
  \/ WorkerRunError

RunNext == RunSchedulerStep \/ RunWorkerStep \/ Interrupt

\* the account starts with ordinary comments only, and the replacement is not
\* the external rewrite, whose outcomes do not matter to the two loops
RunInit == LiveInit /\ STRATEGY # "llm" /\ \A c \in Comments : body[c] = Plain

RunSpec ==
  RunInit /\ [][RunNext]_vars /\ WF_vars(RunSchedulerStep) /\ WF_vars(RunWorkerStep)

\* ------------------------------------------------------------------ claims
\* `last` is the loop body's latest pass: the listed comment, its age at the
\* first clock read (age) and at the second (age2, never smaller), the
\* decision and what was put on the queue.
Decided == last.decision # "None"
Flagged(b) == \E i \in 1..Len(b) - 1 : b[i] = "/" /\ b[i + 1] = "f"
Marked(b) == \E i \in 1..Len(b) - 1 : b[i] = "#" /\ b[i + 1] = "r"
ExpireTicks == EXPIRE_MINUTES * TicksPerMinute
DeleteTicks == DELETE_MINUTES * TicksPerMinute
LastDelete == <<[kind |-> "delete", id |-> last.id, text |-> <<>>]>>
LastIsEdit == Len(last.enq) = 1 /\ last.enq[1].kind = "edit" /\ last.enq[1].id = last.id

\* C1: no edit and no delete is ever put on the queue for a comment whose
\* observed body contains the ignore flag; the loop body skips it whatever its
\* age, its watermark and the two thresholds.
C1_IgnoreFlagNeverMutated ==
  /\ \A i \in DOMAIN enqLog : ~Flagged(enqLog[i].observed)
  /\ (Decided /\ Flagged(last.observed)) => (last.decision = "Skip" /\ last.enq = <<>>)

\* a flagged and watermarked comment, past both thresholds, was skipped
C1_Witness ==
  /\ Decided /\ Flagged(last.observed) /\ Marked(last.observed)
  /\ last.age > ExpireTicks /\ last.age2 > DeleteTicks
  /\ last.decision = "Skip"

\* C2 as stated: a comment without the ignore flag at or past the deletion
\* threshold (age = threshold included, at both clock reads) is deleted when
\* the thresholds are equal or the body carries the watermark.
C2_DeleteAtOrPastThreshold ==
  (/\ Decided /\ ~Flagged(last.observed)
   /\ last.age >= DeleteTicks /\ last.age2 >= DeleteTicks
   /\ (DELETE_MINUTES = EXPIRE_MINUTES \/ Marked(last.observed)))
  => (last.decision = "Delete" /\ last.enq = LastDelete)

\* C2 amended: a comment without the ignore flag whose age is strictly greater
\* than the deletion threshold is deleted when the thresholds are equal or the
\* body carries the watermark.
C2_DeletePastThreshold ==
  (/\ Decided /\ ~Flagged(last.observed)
   /\ last.age2 > DeleteTicks
   /\ (DELETE_MINUTES = EXPIRE_MINUTES \/ Marked(last.observed)))
  => (last.decision = "Delete" /\ last.enq = LastDelete)

\* a watermarked comment past a deletion threshold that differs from the
\* obfuscation threshold was deleted
C2_Witness ==
  /\ Decided /\ ~Flagged(last.observed) /\ Marked(last.observed)
  /\ DELETE_MINUTES # EXPIRE_MINUTES
  /\ last.age > DeleteTicks
  /\ last.enq = LastDelete

\* C3: with the deletion threshold above the obfuscation threshold, a comment
\* without ignore flag and without watermark whose age (at the cycle's first
\* clock read) has reached the deletion threshold is obfuscated, not deleted;
\* and a delete is put on the queue for an unwatermarked comment only when the
\* two thresholds are equal.
C3_ObfuscateBeforeDelete ==
  /\ (/\ Decided /\ ~Flagged(last.observed) /\ ~Marked(last.observed)
      /\ DELETE_MINUTES > EXPIRE_MINUTES
      /\ last.age >= DeleteTicks)
     => (last.decision = "Obfuscate" /\ LastIsEdit)
  /\ \A i \in DOMAIN enqLog :
       (enqLog[i].op.kind = "delete" /\ ~Marked(enqLog[i].observed))
         => DELETE_MINUTES = EXPIRE_MINUTES

\* an unwatermarked comment past the larger deletion threshold got an edit
C3_Witness ==
  /\ Decided /\ ~Flagged(last.observed) /\ ~Marked(last.observed)
  /\ DELETE_MINUTES > EXPIRE_MINUTES
  /\ last.age2 > DeleteTicks
  /\ LastIsEdit

\* C4 as stated: a comment without the ignore flag that is younger than the
\* obfuscation threshold (at both clock reads) is skipped, in every
\* configuration validate_config accepts.
C4_YoungIsSkipped ==
  (/\ Decided /\ ~Flagged(last.observed)
   /\ last.age < ExpireTicks /\ last.age2 < ExpireTicks)
  => (last.decision = "Skip" /\ last.enq = <<>>)

\* C5: no edit is put on the queue for a comment whose observed body carries
\* the watermark; it is skipped, or deleted once past the deletion threshold.
C5_NeverReobfuscated ==
  /\ \A i \in DOMAIN enqLog :
       Marked(enqLog[i].observed) => enqLog[i].op.kind = "delete"
  /\ (Decided /\ Marked(last.observed)) =>
       /\ last.decision \in {"Skip", "Delete"}
       /\ last.decision = "Delete" => last.age2 > DeleteTicks
       /\ last.decision = "Skip" => last.enq = <<>>

\* a watermarked comment past the obfuscation threshold, not yet past the
\* deletion threshold, was skipped
C5_Witness ==
  /\ Decided /\ Marked(last.observed) /\ ~Flagged(last.observed)
  /\ last.age > ExpireTicks /\ last.age2 <= DeleteTicks
  /\ last.decision = "Skip"

\* the operations executed or in flight, and the operations enqueued, in order
Taken == [i \in 1..Len(execLog) |-> execLog[i].op] \o running
Submitted == [i \in 1..Len(enqLog) |-> enqLog[i].op]

\* C7 as stated: no comment has two deletes executed, or two edits executed,
\* unless the earlier one failed.
C7_AppliedOnce ==
  \A i \in DOMAIN execLog : \A j \in DOMAIN execLog :
    (i < j /\ execLog[i].op.id = execLog[j].op.id /\ execLog[i].op.kind = execLog[j].op.kind)
      => ~execLog[i].ok

\* C8: the worker executes the mutations in the order they were enqueued, over
\* all poll cycles; within a cycle that is the listing's order, newest first.
C8_Fifo ==
  /\ Taken \o queue = Submitted
  /\ \A i \in DOMAIN enqLog : \A j \in DOMAIN enqLog :
       (i < j /\ enqLog[i].cycle = enqLog[j].cycle)
         => enqLog[i].created_utc > enqLog[j].created_utc

\* two different mutations of one cycle were executed while a third waits
C8_Witness ==
  /\ Len(execLog) >= 2
  /\ execLog[1].op # execLog[2].op
  /\ enqLog[1].cycle = enqLog[2].cycle
  /\ queue # <<>>

RunFailed == Len(execLog') = Len(execLog) + 1 /\ ~execLog'[Len(execLog')].ok

\* C9: an error raised by a queued mutation is caught: the worker stays alive
\* and goes on to its delay, and the queue behind the failed mutation is left
\* as it was, so the mutations enqueued after it are still executed.
C9_FailureIsolated ==
  [][/\ wpc' # "dead"
     /\ RunFailed => (queue' = queue /\ wpc' = "sleep" /\ running' = <<>>)]_vars

\* a mutation enqueued after a failed one was executed after it
C9_Witness ==
  \E i \in DOMAIN execLog : \E j \in DOMAIN execLog :
    /\ i < j
    /\ ~execLog[i].ok /\ execLog[j].ok
    /\ execLog[i].op # execLog[j].op

\* C10: at most one mutation is in flight, and after a mutation has ended, in
\* success or in failure, the worker sleeps before it starts the next one.
C10_SerializedWithDelay ==
  /\ Len(running) <= 1
  /\ sinceDelay <= 1
  /\ running # <<>> => sinceDelay = 0

\* a mutation is in flight after an earlier one failed
C10_Witness ==
  /\ running # <<>>
  /\ execLog # <<>> /\ ~execLog[Len(execLog)].ok

\* C6 as stated: while poll cycles keep running, the worker keeps draining the
\* queue and every call succeeds, a listed comment without the ignore flag
\* whose age has passed the deletion threshold is eventually deleted.
C6_EventuallyDeleted ==
  \A c \in Comments :
    (/\ Decided /\ last.id = c
     /\ ~Flagged(last.observed)
     /\ last.age > DeleteTicks)
    ~> ~exists[c]

\* C11: every queued item is consumed exactly once.  The worker takes the head
\* of the queue and nothing else, the item it has run is discarded whether the
\* call returned or raised (the queue is as it was, nothing is put back), the
\* queue otherwise only grows at its tail, and while the process runs a
\* waiting item is eventually taken and a taken item eventually finished.
Ended == pc \in {"returned", "terminated"}
TakenFromHead ==
  running = <<>> /\ queue # <<>> /\ running' = <<queue[1]>>
  /\ queue' = SubSeq(queue, 2, Len(queue))
Discarded == Len(running) = 1 /\ running' = <<>> /\ queue' = queue
PutAtTail ==
  running' = running /\ Len(queue') = Len(queue) + 1
  /\ SubSeq(queue', 1, Len(queue)) = queue
C11_ConsumedOnce ==
  /\ [][running' # running => (TakenFromHead \/ Discarded)]_vars
  /\ [][queue' # queue => (TakenFromHead \/ PutAtTail)]_vars
  /\ (queue # <<>>) ~> (running # <<>> \/ Ended)
  /\ (running # <<>>) ~> (running = <<>> \/ Ended)

\* an item has been run and discarded while another one waits
C11_Witness == wpc = "sleep" /\ running = <<>> /\ queue # <<>> /\ pc = "iter"

\* C12: with APPEND_WATERMARK set, the text of every edit that is put on the
\* queue contains the watermark, whatever the strategy; and a poll cycle that
\* lists a comment whose body is the text of an edit that was applied to it
\* does not decide Obfuscate for it.
AppliedEdit(c, b) ==
  \E j \in 1..Len(execLog) :
    /\ execLog[j].ok
    /\ execLog[j].op.kind = "edit"
    /\ execLog[j].op.id = c
    /\ execLog[j].op.text = b
C12_EditsCarryWatermark ==
  APPEND_WATERMARK =>
    /\ \A i \in 1..Len(enqLog) : enqLog[i].op.kind = "edit" => Marked(enqLog[i].op.text)
    /\ \A i \in 1..Len(queue) : queue[i].kind = "edit" => Marked(queue[i].text)
    /\ (Decided /\ AppliedEdit(last.id, last.observed)) => last.decision # "Obfuscate"

\* a later cycle lists the comment with the body an applied edit gave it
C12_Witness ==
  /\ APPEND_WATERMARK
  /\ Decided
  /\ AppliedEdit(last.id, last.observed)

\* C13: an error of the listing call or of the loop body is caught inside the
\* poll cycle.  The scheduler leaves the loop body only for the cycle's own
\* handler, for the normal sleep or by an interrupt, never for the fallback of
\* the scheduler loop; the handler leaves the queue as it was and is followed
\* by the normal sleep; and unless interrupted the scheduler eventually is
\* about to run the next cycle.
C13_CycleErrorContained ==
  /\ [][pc = "iter" => pc' \in {"iter", "caught", "sleep", "terminated"}]_vars
  /\ [][(pc = "iter" /\ pc' = "caught") => queue' = queue]_vars
  /\ [][pc = "caught" => (pc' \in {"caught", "sleep", "terminated"}
                          /\ (pc' = "sleep" => queue' = queue))]_vars
  /\ (pc = "caught") ~> (pc = "loop" \/ pc = "terminated")

\* the cycle ended early by an error, and the mutation its last pass had put
\* on the queue is still waiting there
C13_Witness ==
  /\ pc = "caught"
  /\ listing # <<>>
  /\ Len(last.enq) = 1
  /\ queue # <<>>
  /\ queue[Len(queue)] = last.enq[1]

\* C14: once the scheduler loop runs, only an interrupt ends it.  Every step
\* that leaves the loop is the interrupt's; an error of a tick leads to the
\* fallback sleep, which leads nowhere but back to the top of the loop; and
\* unless interrupted the loop eventually is at its top again, about to run
\* another poll cycle.
InLoop == pc \in {"loop", "iter", "caught", "sleep", "fallback"}
C14_OnlyInterruptTerminates ==
  /\ [](pc = "terminated" => exitCause = "interrupt")
  /\ [][(InLoop /\ pc' # pc /\ exitCause' # "interrupt")
          => pc' \in {"loop", "iter", "caught", "sleep", "fallback"}]_vars
  /\ [][pc = "fallback" => pc' \in {"fallback", "loop", "terminated"}]_vars
  /\ (pc = "fallback") ~> (pc = "loop" \/ pc = "terminated")
  /\ InLoop ~> (pc = "loop" \/ pc = "terminated")

\* a tick failed after its poll cycle had put a mutation on the queue, and
\* the loop is in its fallback sleep
C14_Witness == pc = "fallback" /\ queue # <<>> /\ exitCause = "none"

\* C15: with the rewrite strategy, a pass of the loop body in which the
\* rewrite call failed, in whichever way, still puts one edit for the listed
\* comment at the tail of the queue, its text being one of the built-in
\* tokens (followed by the watermark suffix when that is configured), and the
\* cycle stays in its loop with the rest of the listing.
FailedRewrite(d) ==
  d.llm \in {"HTTPError", "URLError", "JSONDecodeError", "NoChoices", "Exception"}
TokenText(t) ==
  /\ Len(t) >= 1
  /\ t[1] \in {"e1", "e2"}
  /\ IF APPEND_WATERMARK THEN Marked(t) ELSE Len(t) = 1
C15_RewriteFailureFallsBack ==
  [][(last' # last /\ FailedRewrite(last'))
       => /\ STRATEGY = "llm"
          /\ last'.decision = "Obfuscate"
          /\ Len(last'.enq) = 1
          /\ last'.enq[1].kind = "edit"
          /\ last'.enq[1].id = last'.id
          /\ TokenText(last'.enq[1].text)
          /\ queue' = Append(queue, last'.enq[1])
          /\ pc' = "iter"
          /\ listing' = Tail(listing)]_vars

\* the rewrite call failed for the first listed comment, the fallback edit is
\* on the queue and the second comment is still to be looked at
C15_Witness ==
  /\ Decided
  /\ FailedRewrite(last)
  /\ LastIsEdit
  /\ queue # <<>>
  /\ queue[Len(queue)] = last.enq[1]
  /\ pc = "iter"
  /\ listing # <<>>

\* C16: with a required credential missing or a strategy name outside the
\* fixed set, the program never gets past validate_config: the platform client
\* is not constructed, the worker thread is not started, no poll cycle runs and
\* nothing is ever listed, enqueued or executed.
InvalidConfig == ~credentials \/ STRATEGY \notin {"update", "emoji", "llm"}
C16_InvalidConfigRejected ==
  InvalidConfig =>
    /\ pc \in {"validate", "rejected"}
    /\ wpc = "unstarted"
    /\ cycle = 0
    /\ listing = <<>>
    /\ queue = <<>>
    /\ running = <<>>
    /\ enqLog = <<>>
    /\ execLog = <<>>

\* validate_config has raised for an unknown strategy name
C16_Witness == pc = "rejected" /\ STRATEGY = "delete" /\ credentials /\ wpc = "unstarted"

\* C17: when the authentication check at the start of main has failed, main
\* has returned and stays so: the scheduler loop is never entered, no poll
\* cycle runs, no comment is listed or decided upon, and nothing is enqueued
\* or executed.
C17_AuthFailureReturns ==
  exitCause = "auth_failed" =>
    /\ pc = "returned"
    /\ cycle = 0
    /\ listing = <<>>
    /\ ~Decided
    /\ queue = <<>>
    /\ running = <<>>
    /\ enqLog = <<>>
    /\ execLog = <<>>

\* main has returned after the failed check; the worker thread had been
\* started and found nothing to do
C17_Witness == exitCause = "auth_failed" /\ pc = "returned" /\ wpc = "get"

\* C18: decisions are stable under ageing.  When a poll cycle lists a comment
\* for which an earlier cycle, seeing the same body, had enqueued an edit
\* (respectively a delete), it decides Obfuscate (respectively Delete) again.
EarlierDecision(i) ==
  /\ enqLog[i].cycle < cycle
  /\ enqLog[i].op.id = last.id
  /\ enqLog[i].observed = last.observed
C18_DecisionStable ==
  Decided =>
    \A i \in 1..Len(enqLog) :
      EarlierDecision(i) =>
        /\ enqLog[i].op.kind = "edit" => (last.decision = "Obfuscate" /\ LastIsEdit)
        /\ enqLog[i].op.kind = "delete" => (last.decision = "Delete" /\ last.enq = LastDelete)

\* the mutation an earlier cycle had enqueued failed and was dropped, the
\* comment is listed again with the same body and the same action is enqueued
C18_Witness ==
  /\ Decided
  /\ last.enq # <<>>
  /\ \E i \in 1..Len(enqLog) :
       /\ EarlierDecision(i)
       /\ enqLog[i].op.kind = last.enq[1].kind
       /\ \E j \in 1..Len(execLog) : ~execLog[j].ok /\ execLog[j].op = enqLog[i].op

\* C19: with equal thresholds no poll cycle ever enqueues an edit.  Every
\* decision is Skip or Delete, and no edit is on the queue, with the worker or
\* in the record of what was enqueued, although the two cutoffs come from two
\* clock reads.
C19_EqualThresholdsNeverEdit ==
  EXPIRE_MINUTES = DELETE_MINUTES =>
    /\ Decided => (last.decision \in {"Skip", "Delete"} /\ ~LastIsEdit)
    /\ \A i \in 1..Len(enqLog) : enqLog[i].op.kind = "delete"
    /\ \A i \in 1..Len(queue) : queue[i].kind = "delete"
    /\ \A i \in 1..Len(running) : running[i].kind = "delete"

\* the clock moved between the two reads: at the first the comment was not yet
\* past the threshold, at the second it was, and it is deleted
C19_Witness ==
  /\ EXPIRE_MINUTES = DELETE_MINUTES
  /\ Decided
  /\ ~Marked(last.observed)
  /\ last.age <= ExpireTicks
  /\ last.age2 > DeleteTicks
  /\ last.decision = "Delete"
  /\ last.enq = LastDelete
====
